---- MODULE Spec2Model ----
(***************************************************************************)
(* A model of transform.py, the Eagle library transformer: it walks        *)
(* library/images/<item>/, filters and copies each item's files into       *)
(* dist/images under a normalized name, and writes dist/metadata.json.     *)
(*                                                                         *)
(* Strings the program inspects character by character (file names, item   *)
(* identifiers) are sequences of one-character strings.  A Python dict is  *)
(* a function whose DOMAIN is the set of keys present.  An Optional value  *)
(* is <<>> (None) or <<v>>.                                                *)
(***************************************************************************)
EXTENDS Integers, Sequences, FiniteSets, TLC

VARIABLES
    config,                 \* [images_only, min_width]: get_user_preference()
    library,                \* the filesystem under library/ (the input)
    pc,                     \* position of process_library
    idx,                    \* index of the item folder the outer loop is at
    fidx,                   \* index of the directory entry the inner loop is at
    metadata,               \* the current item's metadata (after folder rewrite)
    folder_map,             \* folder id -> folder name
    consolidated_metadata,  \* the records appended so far
    processed_files,
    skipped_non_image,
    skipped_low_quality,
    skipped_thumbnails,
    deleted_files,
    dist,                   \* the filesystem under dist/ (the output)
    printed,                \* the diagnostics printed so far
    origin,                 \* history: origin[k] = the source file of record k
    norm                    \* the normalize_filename experiment (SpecNorm)

vars == <<config, library, pc, idx, fidx, metadata, folder_map,
          consolidated_metadata, processed_files, skipped_non_image,
          skipped_low_quality, skipped_thumbnails, deleted_files, dist,
          printed, origin, norm>>

pipeline_vars == <<config, library, pc, idx, fidx, metadata, folder_map,
                   consolidated_metadata, processed_files, skipped_non_image,
                   skipped_low_quality, skipped_thumbnails, deleted_files, dist,
                   printed, origin>>

----------------------------------------------------------------------------
(* Bounds of the model.                                                    *)

MaxItems == 2       \* item folders in a library of several items
MaxFiles == 2       \* media files in the folder of a single-item library
MaxWidth == 1       \* largest width / minimum-width threshold
MaxNodes == 3       \* folders in the library's folder tree
MaxLen == 3         \* length of a file name given to normalize_filename

----------------------------------------------------------------------------
(* Python values.                                                          *)

None == <<>>
Some(v) == <<v>>

\* dict.get(key, default)
get(d, key, default) == IF key \in DOMAIN d THEN d[key] ELSE default

EmptyDict == [k \in {} |-> None]

----------------------------------------------------------------------------
(* Strings.                                                                *)

UpperCase == <<"A","B","C","D","E","F","G","H","I","J","K","L","M",
               "N","O","P","Q","R","S","T","U","V","W","X","Y","Z">>
LowerCase == <<"a","b","c","d","e","f","g","h","i","j","k","l","m",
               "n","o","p","q","r","s","t","u","v","w","x","y","z">>
Digits == {"0","1","2","3","4","5","6","7","8","9"}

\* The characters the pattern [^a-zA-Z0-9-] leaves in place.
KeptChars == {UpperCase[k] : k \in DOMAIN UpperCase}
             \cup {LowerCase[k] : k \in DOMAIN LowerCase}
             \cup Digits \cup {"-"}

\* The capitals beyond ASCII that a string of this module can hold (the
\* Latin-1 range), and their lowercase forms.
UpperLatin1 == <<"À","Á","Â","Ã","Ä","Å","Æ","Ç","È","É","Ê","Ë","Ì",
                "Í","Î","Ï","Ð","Ñ","Ò","Ó","Ô","Õ","Ö","Ø","Ù","Ú",
                "Û","Ü","Ý","Þ">>
LowerLatin1 == <<"à","á","â","ã","ä","å","æ","ç","è","é","ê","ë","ì",
                "í","î","ï","ð","ñ","ò","ó","ô","õ","ö","ø","ù","ú",
                "û","ü","ý","þ">>

Capitals == UpperCase \o UpperLatin1
Smalls == LowerCase \o LowerLatin1

\* The lowercase form of every capital.
LowerOf ==
    [c \in {Capitals[k] : k \in DOMAIN Capitals} |->
        Smalls[CHOOSE k \in DOMAIN Capitals : Capitals[k] = c]]

lower_char(c) == IF c \in DOMAIN LowerOf THEN LowerOf[c] ELSE c

\* str.lower()
lower(s) == [k \in 1..Len(s) |-> lower_char(s[k])]

\* str.replace(' ', '-')
replace_spaces(s) == [k \in 1..Len(s) |-> IF s[k] = " " THEN "-" ELSE s[k]]

\* re.sub(r'[^a-zA-Z0-9-]', '', s)
IsKept(c) == c \in KeptChars
re_sub(s) == SelectSeq(s, IsKept)

\* str.rfind(c), 1-based; 0 when c does not occur
rfind(s, c) ==
    LET hits == {k \in 1..Len(s) : s[k] = c}
    IN  IF hits = {} THEN 0 ELSE CHOOSE k \in hits : \A j \in hits : j <= k

\* sub in s
contains(s, sub) ==
    \E k \in 0..(Len(s) - Len(sub)) : SubSeq(s, k + 1, k + Len(sub)) = sub

\* The characters of a sequence joined into one string.
RECURSIVE Str(_)
Str(s) == IF s = <<>> THEN "" ELSE Head(s) \o Str(Tail(s))

\* os.path.splitext: the extension starts at the last dot, unless only dots
\* precede it in the last path component.
splitext(p) ==
    LET sepIndex == rfind(p, "/")
        dotIndex == rfind(p, ".")
    IN  IF dotIndex > sepIndex
           /\ \E k \in (sepIndex + 1)..(dotIndex - 1) : p[k] # "."
        THEN <<SubSeq(p, 1, dotIndex - 1), SubSeq(p, dotIndex, Len(p))>>
        ELSE <<p, <<>>>>

\* pathlib.PurePath.suffix: the last dot and what follows it, unless the dot
\* is the first or the last character of the name.
suffix(name) ==
    LET i == rfind(name, ".")
    IN  IF 1 < i /\ i < Len(name) THEN SubSeq(name, i, Len(name)) ELSE <<>>

\* A mutant of normalize_filename: the extension is not lowercased.
normalize_filename_KeepExtCase(filename, item_id) ==
    LET name == splitext(filename)[1]
        ext == splitext(filename)[2]
        normalized == re_sub(replace_spaces(name))
    IN  lower(normalized) \o <<"-">> \o item_id \o ext

\* A mutant of normalize_filename: runs of spaces collapse into one hyphen.
RECURSIVE collapse(_)
collapse(s) ==
    IF Len(s) < 2 THEN s
    ELSE IF s[1] = "-" /\ s[2] = "-" THEN collapse(Tail(s))
    ELSE <<s[1]>> \o collapse(Tail(s))
normalize_filename_Collapse(filename, item_id) ==
    LET name == splitext(filename)[1]
        ext == splitext(filename)[2]
        normalized == re_sub(collapse(replace_spaces(name)))
    IN  lower(normalized) \o <<"-">> \o item_id \o lower(ext)

normalize_filename(filename, item_id) ==
    LET name == splitext(filename)[1]
        ext == splitext(filename)[2]
        normalized == re_sub(replace_spaces(name))
    IN  lower(normalized) \o <<"-">> \o item_id \o lower(ext)

----------------------------------------------------------------------------
(* File extension sets.                                                    *)

IMAGE_EXTENSIONS == {
    ".bmp", ".gif", ".heic", ".heif", ".hif", ".icns", ".ico", ".jpeg", ".jpg",
    ".png", ".svg", ".tif", ".tiff", ".webp", ".avif", ".base64", ".jfif",
    ".insp", ".jxl", ".jpe" }

SUPPORTED_EXTENSIONS == IMAGE_EXTENSIONS \cup {
    ".fbx", ".obj", ".3ds", ".3mf", ".dae", ".ifc", ".ply", ".stl", ".glb",
    ".dds", ".exr", ".hdr", ".tga",
    ".afdesign", ".afphoto", ".afpub", ".ai", ".c4d", ".cdr", ".clip", ".dwg",
    ".graffle", ".idml", ".indd", ".indt", ".mindnode", ".psb", ".psd", ".psdt",
    ".pxd", ".principle", ".sketch", ".skt", ".skp", ".xd", ".xmind",
    ".m4v", ".mp4", ".webm", ".mov",
    ".aac", ".flac", ".m4a", ".mp3", ".ogg", ".wav",
    ".ttf", ".ttc", ".otf", ".woff",
    ".3fr", ".arw", ".cr2", ".cr3", ".crw", ".dng", ".erf", ".mrw", ".nef",
    ".nrw", ".orf", ".pef", ".raf", ".raw", ".rw2", ".sr2", ".srw", ".x3f",
    ".txt", ".key", ".numbers", ".pages", ".pdf", ".potx", ".ppt", ".pptx",
    ".xls", ".xlsx", ".doc", ".docx", ".eddx", ".emmx",
    ".html", ".mhtml", ".url" }

get_file_type(sfx) ==
    IF Str(lower(sfx)) \in IMAGE_EXTENSIONS THEN "image" ELSE "other"

is_supported(sfx) == Str(lower(sfx)) \in SUPPORTED_EXTENSIONS

----------------------------------------------------------------------------
(* The library's folder tree and the folder map.                           *)

\* A mutant of build_folder_map: a locked folder is left out of the map but
\* its children are still visited.
RECURSIVE build_folder_map_DescendLocked(_, _)
build_folder_map_DescendLocked(folders, map) ==
    IF folders = <<>> THEN map
    ELSE LET folder == Head(folders)
             children == get(folder, "children", <<>>)
             m1 == IF get(folder, "password", "") # "" THEN map
                   ELSE (folder["id"] :> folder["name"]) @@ map
             m2 == IF children # <<>>
                   THEN build_folder_map_DescendLocked(children, m1)
                   ELSE m1
         IN  build_folder_map_DescendLocked(Tail(folders), m2)

\* folder.get("password") is truthy: the key is there and is not "".
\* The map is the accumulator the recursion threads through the loop; a later
\* write of the same id replaces the earlier one.
RECURSIVE build_folder_map(_, _)
build_folder_map(folders, map) ==
    IF folders = <<>> THEN map
    ELSE LET folder == Head(folders)
             children == get(folder, "children", <<>>)
         IN  IF get(folder, "password", "") # ""
             THEN build_folder_map(Tail(folders), map)
             ELSE LET m1 == (folder["id"] :> folder["name"]) @@ map
                      m2 == IF children # <<>>
                            THEN build_folder_map(children, m1)
                            ELSE m1
                  IN  build_folder_map(Tail(folders), m2)

\* load_library_metadata: the parsed document, or {"folders": []} when the
\* file is missing (FileNotFoundError) or is not valid JSON
\* (JSONDecodeError).  Any other error of read_text (a file that is not
\* UTF-8, a directory of that name, no permission) is not caught.
load_library_metadata(file) ==
    IF file.kind = "json"
    THEN [raised |-> FALSE, value |-> file.value]
    ELSE IF file.kind \in {"missing", "malformed"}
    THEN [raised |-> FALSE,
          value |-> [type |-> "dict", v |-> ("folders" :> <<>>)]]
    ELSE [raised |-> TRUE]

\* The loop that replaces folder ids with names (process_library).
RECURSIVE rewrite_folders(_, _)
rewrite_folders(ids, map) ==
    IF ids = <<>> THEN <<>>
    ELSE (IF Head(ids) \in DOMAIN map THEN <<map[Head(ids)]>> ELSE <<>>)
         \o rewrite_folders(Tail(ids), map)

----------------------------------------------------------------------------
(* One item folder.                                                        *)

\* load_metadata: the parsed sidecar, or None when it is not valid JSON
\* (JSONDecodeError) or cannot be read (any other exception).  The JSON
\* document null parses to None as well.
load_metadata(sidecar) ==
    IF sidecar.kind = "json" /\ sidecar.value.type # "null"
    THEN Some(sidecar.value)
    ELSE None

\* A mutant of is_deleted: the flag is ignored.
is_deleted_Ignored(m) == FALSE

\* metadata.get("isDeleted") is truthy
is_deleted(m) == get(m, "isDeleted", FALSE)

\* 'thumbnail' in file_path.name.lower()
Thumbnail == <<"t","h","u","m","b","n","a","i","l">>
\* A mutant of is_thumbnail: the name is not lowercased before the test.
is_thumbnail_CaseSensitive(name) == contains(name, Thumbnail)
is_thumbnail(name) == contains(lower(name), Thumbnail)

MetadataJson == <<"m","e","t","a","d","a","t","a",".","j","s","o","n">>

\* min_width is truthy: it is set and is not 0.
truthy(opt) == opt # None /\ opt[1] # 0

\* A mutant of below_min_width: a missing width passes the filter.
below_min_width_MissingPasses(m, min_width) ==
    truthy(min_width) /\ "width" \in DOMAIN m /\ m["width"] < min_width[1]

\* min_width and metadata.get('width', 0) < min_width
below_min_width(m, min_width) ==
    truthy(min_width) /\ get(m, "width", 0) < min_width[1]

\* What shutil.copy2 (copyfile, then copystat) can do: copy the file; raise
\* before it has opened the destination (the source cannot be opened, the
\* destination cannot be created); raise after it has opened and truncated
\* the destination (reading the source or writing fails), which leaves the
\* destination behind without the source's content; or raise in copystat,
\* after the whole content has been written.
CopyOutcomes == {"copied", "refused", "broken", "unstamped"}

\* The content of a destination a broken copy leaves behind: that of no
\* source file.
BrokenFile == <<0, <<>>>>

\* process_file: (success, updated_metadata), and the file it wrote to
\* dist/images if any.  `md` is the metadata as parsed: [type, v];
\* `outcome` is what shutil.copy2 does.
Rejected == [success |-> FALSE, updated_metadata |-> None, copy |-> None]

process_file(name, content, md, images_only, min_width, outcome) ==
    IF name = MetadataJson \/ is_thumbnail(name) \/ ~is_supported(suffix(name))
    THEN Rejected
    ELSE IF md.type # "dict" \/ "id" \notin DOMAIN md.v
    THEN Rejected
    ELSE IF below_min_width(md.v, min_width)
    THEN Rejected
    ELSE LET file_type == get_file_type(suffix(name))
             new_filename == normalize_filename(name, md.v["id"])
         IN  IF images_only /\ file_type # "image"
             THEN Rejected
             ELSE IF outcome = "refused"
             THEN Rejected
             ELSE IF outcome = "broken"
             THEN [success |-> FALSE, updated_metadata |-> None,
                   copy |-> Some([name |-> new_filename, content |-> BrokenFile])]
             ELSE IF outcome = "unstamped"
             THEN [success |-> FALSE, updated_metadata |-> None,
                   copy |-> Some([name |-> new_filename, content |-> content])]
             ELSE [success |-> TRUE,
                   updated_metadata |->
                       Some(("filename" :> new_filename)
                            @@ ("file_type" :> file_type) @@ md.v),
                   copy |-> Some([name |-> new_filename, content |-> content])]

\* The counters process_library derives for a file process_file rejected:
\* <<increment of skipped_low_quality, increment of skipped_non_image>>.
skip_counts(name, m, images_only, min_width) ==
    IF truthy(min_width) /\ Str(lower(suffix(name))) \in IMAGE_EXTENSIONS
       /\ get(m, "width", 0) < min_width[1]
    THEN <<1, 0>>
    ELSE IF images_only /\ is_supported(suffix(name))
            /\ get_file_type(suffix(name)) # "image"
    THEN <<0, 1>>
    ELSE <<0, 0>>

----------------------------------------------------------------------------
(* Inputs: the answers to the prompts and the content of library/.         *)

\* get_user_preference: images_only, and min_width None or a positive int.
Configs ==
    [images_only : BOOLEAN,
     min_width : {None} \cup {Some(w) : w \in 1..MaxWidth}]

DefaultConfig == [images_only |-> FALSE, min_width |-> None]

\* File names found in item folders.
Photo == <<"a"," ","b",".","p","n","g">>
PhotoTwin == <<"a","-","b",".","P","N","G">>
Document == <<"a",".","d","o","c","x">>
ThumbImage == <<"T","h","u","m","b","n","a","i","l",".","p","n","g">>
ThumbOther == <<"a","_","t","h","u","m","b","n","a","i","l",".","x","y","z">>
Unsupported == <<"b",".","x","y","z">>
FileNames == {Photo, PhotoTwin, Document, ThumbImage, ThumbOther, Unsupported}

\* Directory listings: sequences of distinct names, at most n long.
RECURSIVE FileLists(_)
FileLists(n) ==
    IF n = 0 THEN {<<>>}
    ELSE LET shorter == FileLists(n - 1)
         IN  shorter \cup {Append(l, f) : l \in shorter, f \in FileNames}

DistinctLists(n) ==
    {l \in FileLists(n) : \A i, j \in 1..Len(l) : i # j => l[i] # l[j]}

\* Item identifiers.
Id1 == <<"1">>
Id2 == <<"2">>

\* A dict from the optional keys given: each of `id`, `del`, `width`,
\* `folders` is None or Some(value).
Dict(id, del, width, folders) ==
    (IF id = None THEN EmptyDict ELSE ("id" :> id[1]))
    @@ (IF del = None THEN EmptyDict ELSE ("isDeleted" :> del[1]))
    @@ (IF width = None THEN EmptyDict ELSE ("width" :> width[1]))
    @@ (IF folders = None THEN EmptyDict ELSE ("folders" :> folders[1]))

JsonDict(d) == [kind |-> "json", value |-> [type |-> "dict", v |-> d]]

\* Sidecars that are not a record: no file, invalid JSON, a file that
\* cannot be read, and the documents null, a list, a number.
OddSidecars ==
    {[kind |-> "missing"], [kind |-> "malformed"], [kind |-> "unreadable"],
     [kind |-> "json", value |-> [type |-> "null"]],
     [kind |-> "json", value |-> [type |-> "list"]],
     [kind |-> "json", value |-> [type |-> "number"]]}

DictSidecars ==
    {JsonDict(Dict(id, del, width, None)) :
        id \in {None, Some(Id1), Some(Id2)},
        del \in {None, Some(FALSE), Some(TRUE)},
        width \in {None} \cup {Some(w) : w \in 0..MaxWidth}}

\* Items of a single-item library: any sidecar, any listing.
RichItems ==
    [sidecar : OddSidecars \cup DictSidecars, files : DistinctLists(MaxFiles)]

\* Items of a library of several items: one photo each.
PlainSidecars ==
    {[kind |-> "missing"], [kind |-> "malformed"],
     [kind |-> "json", value |-> [type |-> "list"]],
     JsonDict(Dict(Some(Id1), None, None, None)),
     JsonDict(Dict(Some(Id2), None, None, None)),
     JsonDict(Dict(Some(Id1), Some(TRUE), None, None))}
PlainItems == [sidecar : PlainSidecars, files : {<<Photo>>, <<PhotoTwin>>}]

RECURSIVE ItemSeqs(_)
ItemSeqs(n) ==
    IF n = 0 THEN {<<>>}
    ELSE LET shorter == ItemSeqs(n - 1)
         IN  shorter \cup {Append(l, it) : l \in shorter, it \in PlainItems}

NoLibraryMetadata == [kind |-> "missing"]

Library(exists, file, items) ==
    [exists |-> exists, metadata_json |-> file, items |-> items]

\* No library/images directory.
MissingLibrary == Library(FALSE, NoLibraryMetadata, <<>>)

\* library/metadata.json without a folder tree: no file, invalid JSON, a
\* file that cannot be read, and the documents null, a list, {}.
PlainLibraryMetadataFiles ==
    {[kind |-> "missing"], [kind |-> "malformed"], [kind |-> "unreadable"],
     [kind |-> "json", value |-> [type |-> "null"]],
     [kind |-> "json", value |-> [type |-> "list"]],
     JsonDict(EmptyDict)}

FilterLibraries ==
    {MissingLibrary}
    \cup {Library(TRUE, NoLibraryMetadata, <<it>>) : it \in RichItems}
    \cup {Library(TRUE, NoLibraryMetadata, l) : l \in ItemSeqs(MaxItems)}
    \cup {Library(TRUE, file, <<it>>) :
            file \in PlainLibraryMetadataFiles, it \in PlainItems}

\* Folder trees: forests of at most n folders.  Every folder has an id and a
\* name (its path in the tree, so no two folders share a name), a password
\* that is absent, empty or set, and children when it has any.
FolderIds == {"a", "b"}
Passwords == {None, Some(""), Some("x")}
PositionName == <<"1", "2", "3", "4", "5", "6", "7", "8", "9">>

Folder(id, name, password, children) ==
    ("id" :> id) @@ ("name" :> name)
    @@ (IF password = None THEN EmptyDict ELSE ("password" :> password[1]))
    @@ (IF children = <<>> THEN EmptyDict ELSE ("children" :> children))

RECURSIVE Forests(_, _, _)
Forests(n, prefix, pos) ==
    IF n = 0 THEN {<<>>}
    ELSE {<<>>} \cup UNION {
        LET name == prefix \o PositionName[pos]
        IN  {<<Folder(id, name, pw, c)>> \o rest :
                id \in FolderIds, pw \in Passwords,
                c \in Forests(j, name \o "/", 1),
                rest \in Forests(n - 1 - j, prefix, pos + 1)}
        : j \in 0..(n - 1)}

FolderTrees == Forests(MaxNodes, "F", 1)

LibraryMetadataFiles ==
    PlainLibraryMetadataFiles
    \cup {JsonDict("folders" :> t) : t \in FolderTrees}

\* The folder ids an item refers to: both ids of the tree and one that is
\* in no tree.
ItemFolders == <<"a", "b", "z">>

FolderItem(folders) ==
    [sidecar |-> JsonDict(Dict(Some(Id1), None, None, folders)),
     files |-> <<Photo>>]

\* Items the folder rewrite is never reached for.
SkippedItems ==
    {[sidecar |-> sc, files |-> <<Photo>>] :
        sc \in {[kind |-> "missing"],
                [kind |-> "json", value |-> [type |-> "list"]],
                JsonDict(Dict(Some(Id1), Some(TRUE), None, Some(ItemFolders)))}}

FolderLibraries ==
    {MissingLibrary}
    \cup {Library(TRUE, file, <<FolderItem(Some(ItemFolders))>>) :
            file \in LibraryMetadataFiles}
    \cup {Library(TRUE, file, <<FolderItem(None)>>) :
            file \in PlainLibraryMetadataFiles}
    \cup {Library(TRUE, NoLibraryMetadata, <<it>>) : it \in SkippedItems}

----------------------------------------------------------------------------
(* process_library.                                                        *)

Items == library.items
Item == Items[idx]

\* subdir.iterdir(): the media files and, when there is one, the sidecar.
Listing(item) ==
    item.files \o (IF item.sidecar.kind = "missing" THEN <<>> ELSE <<MetadataJson>>)

\* The content of a source file: no two source files have the same content.
Content(i, name) == <<i, name>>

NoDist == [dirs |-> {}, images |-> EmptyDict, metadata_json |-> None]
NoNorm == [phase |-> "off"]

\* The state once get_user_preference has returned.
InitPipeline(cfgs, libraries) ==
    /\ config \in cfgs
    /\ library \in libraries
    /\ pc = "setup"
    /\ idx = 0
    /\ fidx = 0
    /\ metadata = None
    /\ folder_map = EmptyDict
    /\ consolidated_metadata = <<>>
    /\ processed_files = 0
    /\ skipped_non_image = 0
    /\ skipped_low_quality = 0
    /\ skipped_thumbnails = 0
    /\ deleted_files = 0
    /\ dist = NoDist
    /\ printed = <<>>
    /\ origin = <<>>
    /\ norm = NoNorm

Init == InitPipeline(Configs, FilterLibraries)

InitFolders == InitPipeline({DefaultConfig}, FolderLibraries)

\* setup_directories: mkdir dist and dist/images, exist_ok.
SetupDirectories ==
    /\ pc = "setup"
    /\ dist' = [dist EXCEPT !.dirs = @ \cup {"dist", "dist/images"}]
    /\ pc' = "check"
    /\ UNCHANGED <<config, library, idx, fidx, metadata, folder_map,
                   consolidated_metadata, processed_files, skipped_non_image,
                   skipped_low_quality, skipped_thumbnails, deleted_files,
                   printed, origin, norm>>

\* A mutant of LibraryNotFound: the empty result is written before returning.
LibraryNotFound_WritesEmpty ==
    /\ pc = "check"
    /\ ~library.exists
    /\ printed' = Append(printed, [msg |-> "Error: library/images directory not found!"])
    /\ dist' = [dist EXCEPT !.metadata_json = Some(<<>>)]
    /\ pc' = "returned"
    /\ UNCHANGED <<config, library, idx, fidx, metadata, folder_map,
                   consolidated_metadata, processed_files, skipped_non_image,
                   skipped_low_quality, skipped_thumbnails, deleted_files,
                   origin, norm>>

\* library/images does not exist: print the error and return.
LibraryNotFound ==
    /\ pc = "check"
    /\ ~library.exists
    /\ printed' = Append(printed, [msg |-> "Error: library/images directory not found!"])
    /\ pc' = "returned"
    /\ UNCHANGED <<config, library, idx, fidx, metadata, folder_map,
                   consolidated_metadata, processed_files, skipped_non_image,
                   skipped_low_quality, skipped_thumbnails, deleted_files,
                   dist, origin, norm>>

\* Load the library metadata, build the folder map, reset the counters.
\* An error load_library_metadata does not catch ends the run, and so does
\* library_metadata.get on a document that is no dict (AttributeError).
LoadLibrary ==
    /\ pc = "check"
    /\ library.exists
    /\ LET loaded == load_library_metadata(library.metadata_json)
           crash(error) ==
               /\ pc' = "crashed"
               /\ printed' = Append(printed, [msg |-> "Traceback", error |-> error])
               /\ UNCHANGED <<folder_map, consolidated_metadata, processed_files,
                              skipped_non_image, skipped_low_quality,
                              skipped_thumbnails, deleted_files, idx>>
       IN  IF loaded.raised
           THEN crash("read_text")
           ELSE IF loaded.value.type # "dict"
           THEN crash("AttributeError")
           ELSE /\ folder_map' =
                      build_folder_map(get(loaded.value.v, "folders", <<>>),
                                       EmptyDict)
                /\ printed' =
                      IF library.metadata_json.kind = "json" THEN printed
                      ELSE Append(printed,
                                  [msg |-> "Error reading library metadata"])
                /\ consolidated_metadata' = <<>>
                /\ processed_files' = 0
                /\ skipped_non_image' = 0
                /\ skipped_low_quality' = 0
                /\ skipped_thumbnails' = 0
                /\ deleted_files' = 0
                /\ idx' = 1
                /\ pc' = "item"
    /\ UNCHANGED <<config, library, fidx, metadata, dist, origin, norm>>

\* The head of the outer loop body, up to the inner loop: the sidecar is
\* looked for, loaded, tested for isDeleted, and its folder ids rewritten.
\* metadata.get on a value that is no dict raises AttributeError, which
\* nothing catches.
NextItem ==
    /\ pc = "item"
    /\ idx <= Len(Items)
    /\ LET sidecar == Item.sidecar
           loaded == load_metadata(sidecar)
           skip(msgs) ==
               /\ printed' = printed \o msgs
               /\ idx' = idx + 1
               /\ UNCHANGED <<pc, fidx, metadata, deleted_files>>
       IN  IF sidecar.kind = "missing"
           THEN skip(<<[msg |-> "Warning: No metadata.json found", item |-> idx]>>)
           ELSE IF loaded = None
           THEN skip(IF sidecar.kind = "malformed"
                     THEN <<[msg |-> "Error: Invalid JSON", item |-> idx]>>
                     ELSE IF sidecar.kind = "unreadable"
                     THEN <<[msg |-> "Error reading", item |-> idx]>>
                     ELSE <<>>)
           ELSE IF loaded[1].type # "dict"
           THEN /\ pc' = "crashed"
                /\ printed' = Append(printed, [msg |-> "Traceback",
                                               error |-> "AttributeError"])
                /\ UNCHANGED <<idx, fidx, metadata, deleted_files>>
           ELSE IF is_deleted(loaded[1].v)
           THEN /\ deleted_files' = deleted_files + 1
                /\ idx' = idx + 1
                /\ UNCHANGED <<pc, fidx, metadata, printed>>
           ELSE /\ metadata' =
                      IF "folders" \in DOMAIN loaded[1].v
                      THEN [loaded[1] EXCEPT !.v =
                               ("folders" :> rewrite_folders(loaded[1].v["folders"],
                                                             folder_map)) @@ @]
                      ELSE loaded[1]
                /\ fidx' = 1
                /\ pc' = "file"
                /\ UNCHANGED <<idx, deleted_files, printed>>
    /\ UNCHANGED <<config, library, folder_map, consolidated_metadata,
                   processed_files, skipped_non_image, skipped_low_quality,
                   skipped_thumbnails, dist, origin, norm>>

\* One pass of the inner loop body, for the entry at fidx.
ProcessEntry ==
    /\ pc = "file"
    /\ fidx <= Len(Listing(Item))
    /\ \E outcome \in CopyOutcomes :
         LET name == Listing(Item)[fidx]
             r == process_file(name, Content(idx, name), metadata,
                               config.images_only, config.min_width, outcome)
             counts == skip_counts(name, metadata.v, config.images_only,
                                   config.min_width)
             tried == ~is_thumbnail(name) /\ is_supported(suffix(name))
             warned == tried /\ ~r.success
                       /\ ("id" \notin DOMAIN metadata.v
                           \/ (~below_min_width(metadata.v, config.min_width)
                               /\ ~(config.images_only
                                    /\ get_file_type(suffix(name)) # "image")))
         IN  /\ skipped_thumbnails' =
                    IF is_thumbnail(name) THEN skipped_thumbnails + 1
                    ELSE skipped_thumbnails
             /\ processed_files' =
                    IF tried /\ r.success THEN processed_files + 1
                    ELSE processed_files
             /\ consolidated_metadata' =
                    IF tried /\ r.success
                    THEN Append(consolidated_metadata, r.updated_metadata[1])
                    ELSE consolidated_metadata
             /\ origin' =
                    IF tried /\ r.success
                    THEN Append(origin, [item |-> idx, name |-> name])
                    ELSE origin
             /\ dist' =
                    IF tried /\ r.copy # None
                    THEN [dist EXCEPT !.images =
                             (r.copy[1].name :> r.copy[1].content) @@ @]
                    ELSE dist
             /\ skipped_low_quality' =
                    IF tried /\ ~r.success THEN skipped_low_quality + counts[1]
                    ELSE skipped_low_quality
             /\ skipped_non_image' =
                    IF tried /\ ~r.success THEN skipped_non_image + counts[2]
                    ELSE skipped_non_image
             /\ printed' =
                    IF warned
                    THEN Append(printed,
                                IF "id" \notin DOMAIN metadata.v
                                THEN [msg |-> "Warning: Missing or invalid metadata",
                                      item |-> idx, name |-> name]
                                ELSE [msg |-> "Warning: Could not copy",
                                      item |-> idx, name |-> name,
                                      error |-> outcome])
                    ELSE printed
    /\ fidx' = fidx + 1
    /\ UNCHANGED <<config, library, pc, idx, metadata, folder_map,
                   deleted_files, norm>>

\* The inner loop is over: on to the next item folder.
EndItem ==
    /\ pc = "file"
    /\ fidx > Len(Listing(Item))
    /\ idx' = idx + 1
    /\ fidx' = 0
    /\ metadata' = None
    /\ pc' = "item"
    /\ UNCHANGED <<config, library, folder_map, consolidated_metadata,
                   processed_files, skipped_non_image, skipped_low_quality,
                   skipped_thumbnails, deleted_files, dist, printed, origin,
                   norm>>

\* The outer loop is over: write dist/metadata.json.
WriteMetadata ==
    /\ pc = "item"
    /\ idx > Len(Items)
    /\ dist' = [dist EXCEPT !.metadata_json = Some(consolidated_metadata)]
    /\ pc' = "report"
    /\ UNCHANGED <<config, library, idx, fidx, metadata, folder_map,
                   consolidated_metadata, processed_files, skipped_non_image,
                   skipped_low_quality, skipped_thumbnails, deleted_files,
                   printed, origin, norm>>

\* Print the summary; the two filter counters only when their filter is on.
Report ==
    /\ pc = "report"
    /\ printed' = Append(printed,
          [msg |-> "Processing complete!",
           processed |-> processed_files,
           thumbnails |-> skipped_thumbnails,
           non_image |-> IF config.images_only THEN Some(skipped_non_image) ELSE None,
           low_quality |-> IF truthy(config.min_width)
                           THEN Some(skipped_low_quality) ELSE None,
           deleted |-> deleted_files,
           entries |-> Len(consolidated_metadata)])
    /\ pc' = "done"
    /\ UNCHANGED <<config, library, idx, fidx, metadata, folder_map,
                   consolidated_metadata, processed_files, skipped_non_image,
                   skipped_low_quality, skipped_thumbnails, deleted_files,
                   dist, origin, norm>>

Next ==
    \/ SetupDirectories
    \/ LibraryNotFound
    \/ LoadLibrary
    \/ NextItem
    \/ ProcessEntry
    \/ EndItem
    \/ WriteMetadata
    \/ Report

Spec == Init /\ [][Next]_vars

SpecFolders == InitFolders /\ [][Next]_vars

----------------------------------------------------------------------------
(* normalize_filename on its own: applied to a name, then to its result.   *)

NormAlphabet == {"a", "B", "É", "1", " ", "!", "-", "."}

RECURSIVE NormNames(_)
NormNames(n) ==
    IF n = 0 THEN {<<>>}
    ELSE LET shorter == NormNames(n - 1)
         IN  shorter \cup {Append(x, c) : x \in shorter, c \in NormAlphabet}

\* weird!!name  2024.docx, with two spaces
ScenarioName == <<"w","e","i","r","d","!","!","n","a","m","e"," "," ",
                  "2","0","2","4",".","d","o","c","x">>
ScenarioId == <<"4","2">>

NormIds == {ScenarioId, <<"K","7">>, <<"1",".","5">>}

InitNorm ==
    /\ config = DefaultConfig
    /\ library = MissingLibrary
    /\ pc = "off"
    /\ idx = 0
    /\ fidx = 0
    /\ metadata = None
    /\ folder_map = EmptyDict
    /\ consolidated_metadata = <<>>
    /\ processed_files = 0
    /\ skipped_non_image = 0
    /\ skipped_low_quality = 0
    /\ skipped_thumbnails = 0
    /\ deleted_files = 0
    /\ dist = NoDist
    /\ printed = <<>>
    /\ origin = <<>>
    /\ norm \in [phase : {"input"},
                 filename : (NormNames(MaxLen) \ {<<>>}) \cup {ScenarioName},
                 item_id : NormIds,
                 once : {None}, twice : {None}]

Normalize ==
    /\ norm.phase = "input"
    /\ norm' = [norm EXCEPT !.phase = "once",
                            !.once = Some(normalize_filename(norm.filename,
                                                             norm.item_id))]
    /\ UNCHANGED pipeline_vars

NormalizeAgain ==
    /\ norm.phase = "once"
    /\ norm' = [norm EXCEPT !.phase = "twice",
                            !.twice = Some(normalize_filename(norm.once[1],
                                                              norm.item_id))]
    /\ UNCHANGED pipeline_vars

NextNorm == Normalize \/ NormalizeAgain

SpecNorm == InitNorm /\ [][NextNorm]_vars

----------------------------------------------------------------------------
(* What the claims speak of.                                               *)

IsDictItem(k) ==
    /\ Items[k].sidecar.kind = "json"
    /\ Items[k].sidecar.value.type = "dict"

SourceDict(k) == Items[k].sidecar.value.v

DeletedItem(k) ==
    /\ IsDictItem(k)
    /\ "isDeleted" \in DOMAIN SourceDict(k)
    /\ SourceDict(k)["isDeleted"] = TRUE

\* The items whose files the inner loop goes through.
ScannedItem(k) == IsDictItem(k) /\ ~DeletedItem(k)

\* The outer loop is past item k.
Passed(k) == k < idx

\* The directory entries the inner loop has been through: <<item, entry>>.
SeenEntries ==
    {e \in (1..Len(Items)) \X (1..(MaxFiles + 1)) :
        /\ ScannedItem(e[1])
        /\ e[2] <= Len(Listing(Items[e[1]]))
        /\ \/ Passed(e[1])
           \/ e[1] = idx /\ pc = "file" /\ e[2] < fidx}

EntryName(e) == Listing(Items[e[1]])[e[2]]

\* The names of the model that contain "thumbnail" in some letter case.
ThumbNames == {ThumbImage, ThumbOther}

\* The extensions of the model's names, classified by hand.
ImageNames == {Photo, PhotoTwin, ThumbImage}
SupportedNames == {Photo, PhotoTwin, ThumbImage, Document}

Records == 1..Len(consolidated_metadata)

----------------------------------------------------------------------------
(* C1: when process_library has finished, every record's filename names a  *)
(* file of dist/images whose content is the content of the source file the *)
(* record was produced from.                                               *)
C1_RecordsMatchFiles ==
    pc = "done" =>
        \A k \in Records :
            LET r == consolidated_metadata[k]
            IN  /\ r["filename"] \in DOMAIN dist.images
                /\ dist.images[r["filename"]]
                     = Content(origin[k].item, origin[k].name)

(* C2: an item whose metadata has isDeleted true has none of its files     *)
(* copied and no record appended, under every configuration, and the       *)
(* deleted counter has gone up by one for each such item the loop has      *)
(* passed, however many files the item holds.                              *)
C2_DeletedItemsLeaveNoTrace ==
    /\ \A k \in 1..Len(Items) :
          DeletedItem(k) =>
              /\ \A j \in DOMAIN origin : origin[j].item # k
              /\ \A fn \in DOMAIN dist.images : dist.images[fn][1] # k
    /\ deleted_files
         = Cardinality({k \in 1..Len(Items) : Passed(k) /\ DeletedItem(k)})

C2_Witness ==
    /\ pc = "done"
    /\ config.images_only
    /\ Len(Items) = 1
    /\ DeletedItem(1)
    /\ Items[1].files = <<Photo, Document>>
    /\ "id" \in DOMAIN SourceDict(1)
    /\ deleted_files = 1

\* library/metadata.json is read without an uncaught error.
LibraryMetadataLoads ==
    /\ library.metadata_json.kind # "unreadable"
    /\ library.metadata_json.kind = "json" =>
          library.metadata_json.value.type = "dict"

(* C4: when the library root exists (and the library metadata loads), no   *)
(* per-item or per-file problem aborts the run: process_library never dies *)
(* of an uncaught exception in its loop over the items.                    *)
C4_NoItemAbortsTheRun ==
    (library.exists /\ LibraryMetadataLoads) => pc # "crashed"

(* C5: when a minimum width W is set, every record whose file_type is      *)
(* "image" has width >= W, and no record comes from an item whose metadata *)
(* has no width.                                                           *)
C5_AcceptedImagesAreWideEnough ==
    truthy(config.min_width) =>
        \A k \in Records :
            LET r == consolidated_metadata[k]
            IN  /\ r["file_type"] = "image" =>
                      "width" \in DOMAIN r /\ r["width"] >= config.min_width[1]
                /\ "width" \in DOMAIN SourceDict(origin[k].item)

C5_Witness ==
    /\ pc = "done"
    /\ truthy(config.min_width)
    /\ Len(Items) = 1
    /\ Items[1].files = <<Photo>>
    /\ ScannedItem(1)
    /\ "id" \in DOMAIN SourceDict(1)
    /\ "width" \notin DOMAIN SourceDict(1)
    /\ consolidated_metadata = <<>>
    /\ DOMAIN dist.images = {}

(* C6: no file whose name contains "thumbnail" in any letter case is       *)
(* copied or recorded, whatever its extension and the configuration, and   *)
(* skipped_thumbnails counts every such entry the inner loop has been      *)
(* through.                                                                *)
C6_ThumbnailsExcludedAndCounted ==
    /\ \A j \in DOMAIN origin : origin[j].name \notin ThumbNames
    /\ \A fn \in DOMAIN dist.images : dist.images[fn][2] \notin ThumbNames
    /\ skipped_thumbnails
         = Cardinality({e \in SeenEntries : EntryName(e) \in ThumbNames})

C6_Witness ==
    /\ pc = "done"
    /\ ~config.images_only
    /\ config.min_width = None
    /\ Len(Items) = 1
    /\ ScannedItem(1)
    /\ Items[1].files = <<ThumbImage, ThumbOther>>
    /\ "id" \in DOMAIN SourceDict(1)
    /\ skipped_thumbnails = 2
    /\ consolidated_metadata = <<>>

(* C7: when library/images does not exist, process_library prints the      *)
(* error and returns: nothing is copied into dist/images and               *)
(* dist/metadata.json is not written.                                      *)
C7_MissingLibraryLeavesNoOutput ==
    ~library.exists =>
        /\ pc \in {"setup", "check", "returned"}
        /\ DOMAIN dist.images = {}
        /\ dist.metadata_json = None
        /\ pc = "returned" =>
              printed = <<[msg |-> "Error: library/images directory not found!"]>>

C7_Witness ==
    /\ ~library.exists
    /\ pc = "returned"
    /\ dist.dirs = {"dist", "dist/images"}

(* C10: the counter that goes up for an excluded file is the one of the    *)
(* first check that excludes it: low-quality for a file of an item with an *)
(* identifier whose width is below the minimum (whatever the extension),   *)
(* non-image for a file that passes the width check and fails the          *)
(* images-only filter, and neither for a file whose item has no            *)
(* identifier.                                                             *)
Candidate(e) ==
    /\ EntryName(e) \notin ThumbNames
    /\ EntryName(e) \in SupportedNames
    /\ "id" \in DOMAIN SourceDict(e[1])

TooNarrow(e) ==
    /\ truthy(config.min_width)
    /\ get(SourceDict(e[1]), "width", 0) < config.min_width[1]

C10_CountersFollowFirstMatch ==
    /\ skipped_low_quality
         = Cardinality({e \in SeenEntries : Candidate(e) /\ TooNarrow(e)})
    /\ skipped_non_image
         = Cardinality({e \in SeenEntries :
                          /\ Candidate(e)
                          /\ ~TooNarrow(e)
                          /\ config.images_only
                          /\ EntryName(e) \notin ImageNames})

----------------------------------------------------------------------------
(* The folder tree, read without the folder map.                           *)

LibraryFolders ==
    IF /\ library.metadata_json.kind = "json"
       /\ library.metadata_json.value.type = "dict"
       /\ "folders" \in DOMAIN library.metadata_json.value.v
    THEN library.metadata_json.value.v["folders"]
    ELSE <<>>

Locked(folder) == "password" \in DOMAIN folder /\ folder["password"] # ""

ChildrenOf(folder) ==
    IF "children" \in DOMAIN folder THEN folder["children"] ELSE <<>>

\* Every folder of the forest, as [id, name].
RECURSIVE AllFolders(_)
AllFolders(folders) ==
    UNION {{[id |-> folders[k]["id"], name |-> folders[k]["name"]]}
           \cup AllFolders(ChildrenOf(folders[k])) : k \in DOMAIN folders}

\* The folders reached from the roots without passing through a locked one.
RECURSIVE ReachableFolders(_)
ReachableFolders(folders) ==
    UNION {IF Locked(folders[k]) THEN {}
           ELSE {[id |-> folders[k]["id"], name |-> folders[k]["name"]]}
                \cup ReachableFolders(ChildrenOf(folders[k])) : k \in DOMAIN folders}

UnreachableFolders == AllFolders(LibraryFolders) \ ReachableFolders(LibraryFolders)

(* C3: the folders list of an output record holds only names of folders    *)
(* reachable without passing through a folder with a truthy password:      *)
(* never the name of a locked folder or of a descendant of one; and it     *)
(* holds one name for each id of the item's list that resolves to a        *)
(* reachable folder, the other ids being dropped.                          *)
C3_FolderNamesAreReachable ==
    \A k \in Records :
        LET r == consolidated_metadata[k]
            src == SourceDict(origin[k].item)
        IN  "folders" \in DOMAIN src =>
              /\ "folders" \in DOMAIN r
              /\ \A j \in DOMAIN r["folders"] :
                    /\ \E n \in ReachableFolders(LibraryFolders) :
                          n.name = r["folders"][j]
                    /\ \A n \in UnreachableFolders : n.name # r["folders"][j]
              /\ Len(r["folders"])
                   = Cardinality({j \in DOMAIN src["folders"] :
                        \E n \in ReachableFolders(LibraryFolders) :
                            n.id = src["folders"][j]})

\* A locked root with an unlocked child the item refers to, next to an
\* unlocked root: one name substituted, the other ids dropped.
C3_Witness ==
    /\ pc = "done"
    /\ Len(consolidated_metadata) = 1
    /\ "folders" \in DOMAIN SourceDict(1)
    /\ Len(LibraryFolders) = 2
    /\ Locked(LibraryFolders[1])
    /\ ChildrenOf(LibraryFolders[1]) # <<>>
    /\ ~Locked(ChildrenOf(LibraryFolders[1])[1])
    /\ ChildrenOf(LibraryFolders[1])[1]["id"] = "b"
    /\ LibraryFolders[2]["id"] = "a"
    /\ ~Locked(LibraryFolders[2])
    /\ consolidated_metadata[1]["folders"] = <<"F2">>

----------------------------------------------------------------------------
(* C8: as claimed, normalize_filename is idempotent: applied to its own    *)
(* result with the same identifier, it returns that result.                *)
C8_Idempotent ==
    norm.phase = "twice" => norm.twice = norm.once

\* A stem as normalize_filename cleans it.
Clean(s) == lower(re_sub(replace_spaces(s)))

(* C8, amended: normalize_filename is not idempotent.  For an identifier   *)
(* of letters, digits and hyphens, the second pass returns the cleaned     *)
(* stem of the original name, "-", the lowercased identifier, "-", the     *)
(* identifier and the lowercased extension: the identifier is appended     *)
(* once more, and the result differs from that of the first pass.          *)
C8_SecondPassAppendsAgain ==
    (norm.phase = "twice" /\ \A k \in DOMAIN norm.item_id : IsKept(norm.item_id[k])) =>
        /\ norm.twice[1]
             = Clean(splitext(norm.filename)[1]) \o <<"-">> \o lower(norm.item_id)
               \o <<"-">> \o norm.item_id \o lower(splitext(norm.filename)[2])
        /\ norm.twice # norm.once

C8_Witness ==
    /\ norm.phase = "twice"
    /\ norm.filename = <<"a", ".", "B">>
    /\ norm.item_id = <<"K", "7">>
    /\ norm.once = Some(<<"a", "-", "K", "7", ".", "b">>)
    /\ norm.twice = Some(<<"a", "-", "k", "7", "-", "K", "7", ".", "b">>)

(* C9: as claimed, weird!!name  2024.docx with identifier 42 normalizes to *)
(* weirdname-2024-42.docx.                                                 *)
C9_ScenarioSingleHyphen ==
    (norm.phase # "input" /\ norm.filename = ScenarioName
     /\ norm.item_id = ScenarioId) =>
        norm.once = Some(<<"w","e","i","r","d","n","a","m","e","-",
                           "2","0","2","4","-","4","2",".","d","o","c","x">>)

(* C9, amended: weird!!name  2024.docx with identifier 42 normalizes to    *)
(* weirdname--2024-42.docx: each of the two spaces becomes a hyphen.       *)
C9_ScenarioTwoHyphens ==
    (norm.phase # "input" /\ norm.filename = ScenarioName
     /\ norm.item_id = ScenarioId) =>
        norm.once = Some(<<"w","e","i","r","d","n","a","m","e","-","-",
                           "2","0","2","4","-","4","2",".","d","o","c","x">>)

C9_Witness ==
    /\ norm.phase = "once"
    /\ norm.filename = ScenarioName
    /\ norm.item_id = ScenarioId

====
